---- MODULE Spec2Model ----
(***************************************************************************)
(* NewtonFractal (src/newton_fractal.py): construction, the two execution  *)
(* strategies, classification and scoring, and the public operations       *)
(* execute() and visualize().                                              *)
(*                                                                         *)
(* Numbers.  A float64 is modelled as a fixed-point number: the integer v  *)
(* stands for v / Scale, every operation rounds its result to that grid,   *)
(* and a result whose magnitude exceeds MaxMag overflows to the non-finite *)
(* value, as a float64 result beyond its largest finite value does.  A     *)
(* complex128 is a record [k, re, im]; k is "fin", "inf" (a component is   *)
(* infinite) or "nan".                                                     *)
(*                                                                         *)
(* Arrays.  An N x N array is held at the rows and columns Tracked(N):     *)
(* all of them when N <= MaxTracked, otherwise the first and last          *)
(* MaxTracked \div 2.  Its shape is held in full.                          *)
(***************************************************************************)
EXTENDS Integers, Sequences, FiniteSets, TLC

(* ------------------------------ bounds --------------------------------- *)

\* fixed-point steps per unit
Scale == 16

\* largest finite magnitude, in units
MaxMag == 64

\* rows and columns of a grid held in the state
MaxTracked == 4

\* public calls made on a constructed instance
MaxCalls == 2

(* ------------------------ optional arguments --------------------------- *)

\* Python's None, and a supplied value v
None == <<>>

Some(v) == <<v>>

IsNone(a) == a = <<>>

Val(a) == a[1]

(* ------------------------- fixed-point reals --------------------------- *)

Abs(a) == IF a < 0 THEN -a ELSE a

Lim == MaxMag * Scale

\* a / b rounded to the nearest integer, b > 0
RoundDiv(a, b) == (2 * a + b) \div (2 * b)

RECURSIVE ISqrtIn(_, _, _)
ISqrtIn(n, lo, hi) ==
  IF lo >= hi THEN lo
  ELSE LET mid == (lo + hi + 1) \div 2
       IN  IF mid * mid <= n THEN ISqrtIn(n, mid, hi) ELSE ISqrtIn(n, lo, mid - 1)

\* floor of the square root of n >= 0
ISqrt(n) == ISqrtIn(n, 0, 4 * Lim)

(* --------------------------- complex values ---------------------------- *)

C(re, im) == [k |-> "fin", re |-> re, im |-> im]

INF == [k |-> "inf", re |-> 0, im |-> 0]

NAN == [k |-> "nan", re |-> 0, im |-> 0]

IsZero(z) == z.k = "fin" /\ z.re = 0 /\ z.im = 0

\* a finite result, or the overflow to infinity
Clamp(re, im) == IF Abs(re) > Lim \/ Abs(im) > Lim THEN INF ELSE C(re, im)

\* a real coefficient as a complex value
FromCoef(c) == C(c * Scale, 0)

CAdd(a, b) ==
  IF a.k = "nan" \/ b.k = "nan" THEN NAN
  ELSE IF a.k = "inf" \/ b.k = "inf" THEN INF
  ELSE Clamp(a.re + b.re, a.im + b.im)

CSub(a, b) ==
  IF a.k = "nan" \/ b.k = "nan" THEN NAN
  ELSE IF a.k = "inf" /\ b.k = "inf" THEN NAN
  ELSE IF a.k = "inf" \/ b.k = "inf" THEN INF
  ELSE Clamp(a.re - b.re, a.im - b.im)

\* 0 * inf is nan
CMul(a, b) ==
  IF a.k = "nan" \/ b.k = "nan" THEN NAN
  ELSE IF a.k = "inf" \/ b.k = "inf"
       THEN IF IsZero(a) \/ IsZero(b) THEN NAN ELSE INF
  ELSE Clamp(RoundDiv(a.re * b.re - a.im * b.im, Scale),
             RoundDiv(a.re * b.im + a.im * b.re, Scale))

\* x / 0 is infinite, 0 / 0 is nan; no error is raised
CDiv(a, b) ==
  IF a.k = "nan" \/ b.k = "nan" THEN NAN
  ELSE IF b.k = "inf" THEN NAN
  ELSE IF IsZero(b) THEN (IF IsZero(a) THEN NAN ELSE INF)
  ELSE IF a.k = "inf" THEN INF
  ELSE LET den == b.re * b.re + b.im * b.im
       IN  Clamp(RoundDiv((a.re * b.re + a.im * b.im) * Scale, den),
                 RoundDiv((a.im * b.re - a.re * b.im) * Scale, den))

\* np.absolute: a distance [k, v], v in fixed-point steps
CAbs(z) ==
  IF z.k = "fin" THEN [k |-> "fin", v |-> ISqrt(z.re * z.re + z.im * z.im)]
  ELSE [k |-> z.k, v |-> 0]

(* ------------------------- numpy: polynomials -------------------------- *)

\* np.polyder(p, m = 1): p[:-1] * arange(n, 0, -1), n = len(p) - 1
Polyder(p) == [j \in 1..(Len(p) - 1) |-> p[j] * (Len(p) - j)]

RECURSIVE Horner(_, _, _, _)
Horner(p, x, j, y) ==
  IF j > Len(p) THEN y
  ELSE Horner(p, x, j + 1, CAdd(CMul(y, x), FromCoef(p[j])))

\* np.polyval(p, x): y = 0, then y = y * x + pv for each coefficient
Polyval(p, x) == Horner(p, x, 1, C(0, 0))

NonZero(p) == {j \in 1..Len(p) : p[j] # 0}

SetMin(S) == CHOOSE a \in S : \A b \in S : a <= b

SetMax(S) == CHOOSE a \in S : \A b \in S : a >= b

\* the roots of a * z + b, or of a * z^2 + b * z + c, a # 0, rounded
Eigvals(q) ==
  IF Len(q) < 2 THEN <<>>
  ELSE IF Len(q) = 2
       THEN LET s == IF q[1] < 0 THEN -1 ELSE 1
            IN  << C(RoundDiv(-q[2] * s * Scale, q[1] * s), 0) >>
  ELSE LET s    == IF q[1] < 0 THEN -1 ELSE 1
           a2   == 2 * q[1] * s
           b    == q[2] * s
           disc == q[2] * q[2] - 4 * q[1] * q[3]
           r    == ISqrt(Abs(disc) * Scale * Scale)
       IN  IF disc >= 0
           THEN << C(RoundDiv(-b * Scale - r, a2), 0),
                   C(RoundDiv(-b * Scale + r, a2), 0) >>
           ELSE << C(RoundDiv(-b * Scale, a2), -RoundDiv(r, a2)),
                   C(RoundDiv(-b * Scale, a2), RoundDiv(r, a2)) >>

Reverse(s) == [j \in 1..Len(s) |-> s[Len(s) + 1 - j]]

\* np.roots(p): leading and trailing zeros are stripped, the eigenvalues of
\* the companion matrix follow in the order the eigenvalue routine returns
\* them (either order is possible), then one zero root per trailing zero
NpRoots(p) ==
  IF NonZero(p) = {} THEN {<<>>}
  ELSE LET first == SetMin(NonZero(p))
           last  == SetMax(NonZero(p))
           q     == SubSeq(p, first, last)
           zeros == [j \in 1..(Len(p) - last) |-> C(0, 0)]
       IN  {Eigvals(q) \o zeros, Reverse(Eigvals(q)) \o zeros}

(* ---------------------------- numpy: grids ----------------------------- *)

\* the rows (columns) of an n-row array that the state holds
Tracked(n) ==
  IF n <= MaxTracked THEN 0..(n - 1)
  ELSE {j \in 0..(n - 1) : j < MaxTracked \div 2 \/ j >= n - MaxTracked \div 2}

Cells(n) == Tracked(n) \X Tracked(n)

\* np.linspace(-b, b, n)[j]
Linspace(b, n, j) ==
  IF n = 1 THEN -b * Scale
  ELSE RoundDiv((2 * b * j - b * (n - 1)) * Scale, n - 1)

\* X, Y = np.meshgrid(_x, _x): X[row, col] = _x[col], Y[row, col] = _x[row]
MeshX(b, n, row, col) == Linspace(b, n, col)

MeshY(b, n, row, col) == Linspace(b, n, row)

\* Z_0 = X + 1j * Y
Z0(b, n) ==
  [cell \in Cells(n) |-> C(MeshX(b, n, cell[1], cell[2]), MeshY(b, n, cell[1], cell[2]))]

\* seq[j] with Python's negative indices
PyIndex(len, j) == IF j < 0 THEN len + j ELSE j

(* ------------------------- numpy: argmin ------------------------------- *)

\* a < b on distances; a nan compares false with everything
DLess(a, b) ==
  IF a.k = "nan" \/ b.k = "nan" THEN FALSE
  ELSE IF a.k = "inf" THEN FALSE
  ELSE IF b.k = "inf" THEN TRUE
  ELSE a.v < b.v

RECURSIVE ArgminScan(_, _, _)
ArgminScan(s, j, best) ==
  IF j > Len(s) THEN best
  ELSE IF s[best].k = "nan" THEN best
  ELSE IF s[j].k = "nan" \/ DLess(s[j], s[best]) THEN ArgminScan(s, j + 1, j)
  ELSE ArgminScan(s, j + 1, best)

RECURSIVE ArgminScanLast(_, _, _)
ArgminScanLast(s, j, best) ==
  IF j > Len(s) THEN best
  ELSE IF s[best].k = "nan" THEN best
  ELSE IF s[j].k = "nan" \/ ~DLess(s[best], s[j]) THEN ArgminScanLast(s, j + 1, j)
  ELSE ArgminScanLast(s, j + 1, best)

\* an argmin that takes the last index of the minimum
NpArgminLast(s) == ArgminScanLast(s, 2, 1) - 1

\* np.argmin of a non-empty sequence s[1..n], zero-based: the first index
\* of the minimum, and the first nan when there is one
NpArgmin(s) == ArgminScan(s, 2, 1) - 1

\* np.squeeze on a shape: axes of length one are removed
Squeeze(shape) == SelectSeq(shape, LAMBDA d : d # 1)

(* ------------------- NewtonFractal: parameters ------------------------- *)

\* N_points when it is not supplied
DefaultNPoints == 512

\* N_iter when it is not supplied
DefaultNIter == 10

\* bound when it is not supplied
DefaultBound == 2

\* the loop started one step early: range( 0, self._N_iter )
LoopStartZero == 1 - 1

\* range( 1, self._N_iter )
LoopStart == 1

\* 5e-16 in fixed-point steps: it rounds to no step at all
EpsSteps == 0

EffNPoints(a) ==
  IF IsNone(a.N_points) THEN DefaultNPoints
  ELSE Val(a.N_points) + (Val(a.N_points) % 2)

EffNIter(a) == IF IsNone(a.N_iter) THEN DefaultNIter ELSE Val(a.N_iter)

EffBound(a) == IF IsNone(a.bound) THEN DefaultBound ELSE Val(a.bound)

EffMethod(a) == IF IsNone(a.method) THEN "fortran" ELSE Val(a.method)

\* the bound checked with < where the code has <=
ValidateBoundUnchecked(a) ==
  IF ~a.poly_params.numeric THEN "poly"
  ELSE IF ~IsNone(a.N_iter) /\ Val(a.N_iter) <= 0 THEN "N_iter"
  ELSE IF ~IsNone(a.bound) /\ Val(a.bound) < 0 THEN "bound"
  ELSE IF ~IsNone(a.method) /\ Val(a.method) \notin {"fortran", "numpy"} THEN "method"
  ELSE "ok"

\* the first check of __init__ that raises, in the order of the code
Validate(a) ==
  IF ~a.poly_params.numeric THEN "poly"
  ELSE IF ~IsNone(a.N_iter) /\ Val(a.N_iter) <= 0 THEN "N_iter"
  ELSE IF ~IsNone(a.bound) /\ Val(a.bound) <= 0 THEN "bound"
  ELSE IF ~IsNone(a.method) /\ Val(a.method) \notin {"fortran", "numpy"} THEN "method"
  ELSE "ok"

\* how far __init__ gets: the attributes assigned before each raise
StageNo(stage) ==
  CASE stage = "poly"   -> 1
    [] stage = "N_iter" -> 2
    [] stage = "bound"  -> 3
    [] stage = "method" -> 4
    [] stage = "ok"     -> 5

AttrsAt(n) ==
  (IF n >= 2 THEN {"_poly_params", "_N_points"} ELSE {})
  \cup (IF n >= 3 THEN {"_N_iter"} ELSE {})
  \cup (IF n >= 4 THEN {"_bound"} ELSE {})
  \cup (IF n >= 5 THEN {"_method", "_poly_der_params", "_roots", "Z_history"} ELSE {})

\* an array no statement has assigned yet
NoArray == [shape |-> <<>>, at |-> <<>>]

\* np.zeros( ( N_iter, N, N ) ) with step 0 set to Z_0
NewHistory(t, n, z0) ==
  [shape |-> <<t, n, n>>,
   at    |-> [step \in 0..(t - 1) |->
               IF step = 0 THEN z0 ELSE [cell \in Cells(n) |-> C(0, 0)]]]

(* ------------------- NewtonFractal: computation ------------------------ *)

\* Z_i - polyval( p, Z_i ) / polyval( p', Z_i )
NewtonUpdate(p, dp, z) == CSub(z, CDiv(Polyval(p, z), Polyval(dp, z)))

\* the loop body reading the step it is about to write: Z_history[ j ]
ReadStepSame(t, j) == PyIndex(t, j)

\* the step the loop body reads at iteration j: Z_history[ j - 1 ]
ReadStep(t, j) == PyIndex(t, j - 1)

\* the step the classification reads: Z_history[ -1 ]
FinalStep(t) == PyIndex(t, -1)

\* np.absolute( Z - roots ) along the last axis
RootDistances(z, roots) == [j \in 1..Len(roots) |-> CAbs(CSub(z, roots[j]))]

\* np.argmin( distance, axis = -1 ).reshape( N, N )
RootIndices(zh, roots, n) ==
  [shape |-> <<n, n>>,
   at    |-> [cell \in Cells(n) |->
               NpArgmin(RootDistances(zh.at[FinalStep(zh.shape[1])][cell], roots))]]

\* ( closest_distances - 5e-16 ) ** 2
ShadeKey(d) ==
  IF d.k = "fin" THEN [k |-> "fin", v |-> (d.v - EpsSteps) * (d.v - EpsSteps)] ELSE d

\* closest_distances[ step, row, col ]: the distance to the assigned root
Closest(zh, roots, ri, step, cell) ==
  CAbs(CSub(zh.at[step][cell], roots[ri.at[cell] + 1]))

\* the j-th tracked row, j = 1, 2, ...
TrackedAt(n, j) ==
  IF n <= MaxTracked \/ j <= MaxTracked \div 2 THEN j - 1
  ELSE n - 2 * (MaxTracked \div 2) + j - 1

\* np.argmin( ( closest_distances - 5e-16 ) ** 2, axis = 0 ) of the squeezed
\* array: the squeeze removes the step axis when there is one step, and
\* axis 0 is then the row axis (N >= 2: a grid has an even positive size)
Convergence(zh, roots, ri, n) ==
  LET t  == zh.shape[1]
      sq == Squeeze(<<t, n, n, 1>>)
  IN  IF sq[1] = t /\ Len(sq) = 3
      THEN [shape |-> Tail(sq),
            at    |-> [cell \in Cells(n) |->
                        NpArgmin([j \in 1..t |->
                          ShadeKey(Closest(zh, roots, ri, j - 1, cell))])]]
      ELSE [shape |-> Tail(sq),
            at    |-> [ix \in {<<col>> : col \in Tracked(n)} |->
                        TrackedAt(n, 1 + NpArgmin([j \in 1..Cardinality(Tracked(n)) |->
                          ShadeKey(Closest(zh, roots, ri, 0,
                                           <<TrackedAt(n, j), ix[1]>>))]))]]

\* arr.T of a square array
Transpose(m) ==
  [shape |-> <<m.shape[2], m.shape[1]>>,
   at    |-> [cell \in DOMAIN m.at |-> m.at[<<cell[2], cell[1]>>]]]

\* arr + c, elementwise
Shift(m, c) == [shape |-> m.shape, at |-> [cell \in DOMAIN m.at |-> m.at[cell] + c]]

(* --------------- the native routine newton_fractal_f2py ---------------- *)

\* the plane bound of the native routine: the call passes it none
FortranBound == 2

RECURSIVE NewtonIter(_, _, _, _)
\* the value of a point after t Newton-Raphson updates
NewtonIter(p, dp, z, t) ==
  IF t = 0 THEN z ELSE NewtonIter(p, dp, NewtonUpdate(p, dp, z), t - 1)

\* the index of the root nearest to the final iterate of z, the first on a tie
NativeRootIndex(p, roots, n_iter, z) ==
  NpArgmin(RootDistances(NewtonIter(p, Polyder(p), z, n_iter - 1), roots))

\* the step at which z is nearest to the tolerance away from its root
NativeConvergence(p, roots, n_iter, z) ==
  LET r == roots[NativeRootIndex(p, roots, n_iter, z) + 1]
  IN  NpArgmin([j \in 1..n_iter |->
        ShadeKey(CAbs(CSub(NewtonIter(p, Polyder(p), z, j - 1), r)))])

\* newton.main( poly_params, roots, N_iter, root_indices, convergence ):
\* both arrays are filled in place, indexed (real, imaginary), the root
\* indices one-based
FortranMain(p, roots, n_iter, n) ==
  LET pt(cell) == C(Linspace(FortranBound, n, cell[1]), Linspace(FortranBound, n, cell[2]))
  IN  [root_indices |->
         [shape |-> <<n, n>>,
          at    |-> [cell \in Cells(n) |-> NativeRootIndex(p, roots, n_iter, pt(cell)) + 1]],
       convergence  |->
         [shape |-> <<n, n>>,
          at    |-> [cell \in Cells(n) |-> NativeConvergence(p, roots, n_iter, pt(cell))]]]

(* ------------------------------ state ---------------------------------- *)

VARIABLES
  args,              \* the arguments of NewtonFractal( ... )
  has_f2py,          \* whether newton_fractal_f2py can be imported
  pc,                \* where the program is
  error,             \* the exception raised, "" when none
  attrs,             \* the attributes of self assigned so far
  _poly_params, _N_points, _N_iter, _bound, _method,
  _poly_der_params, _roots, Z_history, _root_indices, _convergence,
  i,                 \* the loop variable of _execute_numpy
  writes,            \* the steps of Z_history this execute() has written, in order
  n_execute,         \* the calls of execute() so far
  calls,             \* the public calls made on the constructed instance
  files              \* the bitmaps visualize() has saved

vars ==
  <<args, has_f2py, pc, error, attrs, _poly_params, _N_points, _N_iter, _bound,
    _method, _poly_der_params, _roots, Z_history, _root_indices, _convergence,
    i, writes, n_execute, calls, files>>

(* ------------------------------ inputs --------------------------------- *)

Poly(coef) == [numeric |-> TRUE, coef |-> coef]

\* an argument np.asarray( poly_params, dtype = float ) cannot convert
NonNumeric == [numeric |-> FALSE, coef |-> <<>>]

PolyInputs ==
  {Poly(<<1, 1>>), Poly(<<1, 0, -1>>), Poly(<<1, 0, 1>>), Poly(<<1, -2, 1>>),
   Poly(<<1, -2, 0>>), Poly(<<5>>), NonNumeric}

NPointsInputs == {None, Some(1), Some(2), Some(3), Some(4)}

NIterInputs == {None, Some(-1), Some(0), Some(1), Some(2), Some(3)}

BoundInputs == {None, Some(-1), Some(0), Some(1)}

MethodInputs == {None, Some("fortran"), Some("numpy"), Some("cuda")}

\* A grid larger than MaxTracked is run with more than one iteration step:
\* with one step the scoring reduces along the rows, which needs them all.
Inputs ==
  {a \in [poly_params : PolyInputs, N_points : NPointsInputs, N_iter : NIterInputs,
          bound : BoundInputs, method : MethodInputs] :
     EffNPoints(a) > MaxTracked => EffNIter(a) # 1}

Init ==
  /\ args \in Inputs
  /\ has_f2py \in BOOLEAN
  /\ pc = "init"
  /\ error = ""
  /\ attrs = {}
  /\ _poly_params = <<>>
  /\ _N_points = 0
  /\ _N_iter = 0
  /\ _bound = 0
  /\ _method = ""
  /\ _poly_der_params = <<>>
  /\ _roots = <<>>
  /\ Z_history = NoArray
  /\ _root_indices = NoArray
  /\ _convergence = NoArray
  /\ i = 0
  /\ writes = <<>>
  /\ n_execute = 0
  /\ calls = 0
  /\ files = 0

(* ------------------------------ actions -------------------------------- *)

\* NewtonFractal.__init__ up to the call of execute()
Construct ==
  /\ pc = "init"
  /\ LET n == StageNo(Validate(args))
     IN  /\ attrs' = AttrsAt(n)
         /\ _poly_params' = IF n >= 2 THEN args.poly_params.coef ELSE _poly_params
         /\ _N_points' = IF n >= 2 THEN EffNPoints(args) ELSE _N_points
         /\ _N_iter' = IF n >= 3 THEN EffNIter(args) ELSE _N_iter
         /\ _bound' = IF n >= 4 THEN EffBound(args) ELSE _bound
         /\ _method' = IF n >= 5 THEN EffMethod(args) ELSE _method
         /\ IF n >= 5
            THEN /\ _poly_der_params' = Polyder(args.poly_params.coef)
                 /\ _roots' \in NpRoots(args.poly_params.coef)
                 /\ Z_history' = NewHistory(EffNIter(args), EffNPoints(args),
                                            Z0(EffBound(args), EffNPoints(args)))
                 /\ pc' = "execute"
                 /\ error' = error
            ELSE /\ pc' = "raised"
                 /\ error' = "ValueError"
                 /\ UNCHANGED <<_poly_der_params, _roots, Z_history>>
  /\ UNCHANGED <<args, has_f2py, _root_indices, _convergence, i, writes, n_execute,
                 calls, files>>

\* an execute() that falls back to numpy when the import fails
DispatchFallback(method, importable) ==
  IF method = "fortran" /\ importable THEN "fortran" ELSE "numpy"

\* the strategy execute() runs, or the error it raises
Dispatch(method, importable) ==
  IF method = "fortran"
  THEN (IF importable THEN "fortran" ELSE "ImportError")
  ELSE "numpy"

\* NewtonFractal.execute
Execute ==
  /\ pc = "execute"
  /\ n_execute' = n_execute + 1
  /\ writes' = <<>>
  /\ LET d == Dispatch(_method, has_f2py)
     IN  CASE d = "ImportError" ->
                /\ pc' = "raised"
                /\ error' = "ImportError"
                /\ UNCHANGED <<attrs, i>>
           [] d = "fortran" ->
                /\ pc' = "fortran"
                /\ attrs' = attrs \cup {"_fortran_function"}
                /\ UNCHANGED <<error, i>>
           [] d = "numpy" ->
                /\ pc' = "loop"
                /\ i' = LoopStart
                /\ UNCHANGED <<error, attrs>>
  /\ UNCHANGED <<args, has_f2py, _poly_params, _N_points, _N_iter, _bound, _method,
                 _poly_der_params, _roots, Z_history, _root_indices, _convergence,
                 calls, files>>

\* one pass of the loop of _execute_numpy
NumpyStep ==
  /\ pc = "loop"
  /\ i < _N_iter
  /\ Z_history' =
       [Z_history EXCEPT !.at[i] =
          [cell \in Cells(_N_points) |->
             NewtonUpdate(_poly_params, _poly_der_params,
                          Z_history.at[ReadStep(_N_iter, i)][cell])]]
  /\ writes' = Append(writes, i)
  /\ i' = i + 1
  /\ UNCHANGED <<args, has_f2py, pc, error, attrs, _poly_params, _N_points, _N_iter,
                 _bound, _method, _poly_der_params, _roots, _root_indices,
                 _convergence, n_execute, calls, files>>

\* _execute_numpy after the loop: classification and scoring; np.argmin
\* raises ValueError on an empty root axis
NumpyClassify ==
  /\ pc = "loop"
  /\ i >= _N_iter
  /\ IF Len(_roots) = 0
     THEN /\ pc' = "raised"
          /\ error' = "ValueError"
          /\ UNCHANGED <<attrs, _root_indices, _convergence>>
     ELSE LET ri == RootIndices(Z_history, _roots, _N_points)
          IN  /\ _root_indices' = ri
              /\ _convergence' = Convergence(Z_history, _roots, ri, _N_points)
              /\ attrs' = attrs \cup {"_root_indices", "_convergence"}
              /\ pc' = "ready"
              /\ error' = error
  /\ UNCHANGED <<args, has_f2py, _poly_params, _N_points, _N_iter, _bound, _method,
                 _poly_der_params, _roots, Z_history, i, writes, n_execute, calls,
                 files>>

\* _execute_fortran; the native routine rejects a polynomial without roots
ExecuteFortran ==
  /\ pc = "fortran"
  /\ IF Len(_roots) = 0
     THEN /\ pc' = "raised"
          /\ error' = "InvalidParameter"
          /\ UNCHANGED <<attrs, _root_indices, _convergence>>
     ELSE LET out == FortranMain(_poly_params, _roots, _N_iter, _N_points)
          IN  /\ _root_indices' = Shift(Transpose(out.root_indices), -1)
              /\ _convergence' = Transpose(out.convergence)
              /\ attrs' = attrs \cup {"_root_indices", "_convergence"}
              /\ pc' = "ready"
              /\ error' = error
  /\ UNCHANGED <<args, has_f2py, _poly_params, _N_points, _N_iter, _bound, _method,
                 _poly_der_params, _roots, Z_history, i, writes, n_execute, calls,
                 files>>

\* a caller's execute() on the constructed instance
CallExecute ==
  /\ pc = "ready"
  /\ calls < MaxCalls
  /\ calls' = calls + 1
  /\ pc' = "execute"
  /\ UNCHANGED <<args, has_f2py, error, attrs, _poly_params, _N_points, _N_iter,
                 _bound, _method, _poly_der_params, _roots, Z_history, _root_indices,
                 _convergence, i, writes, n_execute, files>>

\* NewtonFractal.visualize: the shades and the bitmap are new arrays built
\* from the two maps, and the bitmap is saved
Visualize ==
  /\ pc = "ready"
  /\ calls < MaxCalls
  /\ calls' = calls + 1
  /\ files' = files + 1
  /\ UNCHANGED <<args, has_f2py, pc, error, attrs, _poly_params, _N_points, _N_iter,
                 _bound, _method, _poly_der_params, _roots, Z_history, _root_indices,
                 _convergence, i, writes, n_execute>>

Next ==
  \/ Construct
  \/ Execute
  \/ NumpyStep
  \/ NumpyClassify
  \/ ExecuteFortran
  \/ CallExecute
  \/ Visualize

Spec == Init /\ [][Next]_vars

(* ------------------------------ claims --------------------------------- *)

Computed == {"_poly_der_params", "_roots", "Z_history", "_root_indices", "_convergence"}

NothingComputed ==
  /\ attrs \cap Computed = {}
  /\ _poly_der_params = <<>>
  /\ _roots = <<>>
  /\ Z_history = NoArray
  /\ _root_indices = NoArray
  /\ _convergence = NoArray
  /\ n_execute = 0
  /\ writes = <<>>

InvalidArgs ==
  \/ ~IsNone(args.N_iter) /\ Val(args.N_iter) <= 0
  \/ ~IsNone(args.bound) /\ Val(args.bound) <= 0
  \/ ~IsNone(args.method) /\ Val(args.method) \notin {"fortran", "numpy"}

\* C1: a construction with N_iter <= 0, bound <= 0 or a method other than
\* 'fortran' and 'numpy' raises ValueError with the derivative, the roots,
\* the grid, Z_history and both maps never assigned and execute() never
\* called.
C1_InvalidRaisesBeforeComputation ==
  (pc # "init" /\ InvalidArgs) =>
    (pc = "raised" /\ error = "ValueError" /\ NothingComputed)

\* C1 witness: the method check, the last of the checks, has raised.
C1_Witness ==
  /\ pc = "raised"
  /\ error = "ValueError"
  /\ args.method = Some("cuda")
  /\ attrs = {"_poly_params", "_N_points", "_N_iter", "_bound"}
  /\ _N_iter = 3

\* C2: in the numpy strategy the Convergence Map is an N x N array whose
\* entries all lie in 0 .. N_iter - 1, for every N_iter >= 1.
C2_ConvergenceShapeAndRange ==
  (pc = "ready" /\ _method = "numpy") =>
    /\ _convergence.shape = <<_N_points, _N_points>>
    /\ \A ix \in DOMAIN _convergence.at : _convergence.at[ix] \in 0..(_N_iter - 1)

\* C3: when N_iter is not supplied the effective iteration count is 100.
C3_DefaultNIterIs100 ==
  (IsNone(args.N_iter) /\ "_N_iter" \in attrs) =>
    /\ _N_iter = 100
    /\ "Z_history" \in attrs => Z_history.shape[1] = 100

ResolutionOf(a) ==
  IF IsNone(a.N_points) THEN 512
  ELSE IF Val(a.N_points) % 2 = 0 THEN Val(a.N_points)
  ELSE Val(a.N_points) + 1

\* C4: the effective resolution is 512 by default, N_points when that is
\* even and N_points + 1 when it is odd; it is even, and the grid, every
\* step of Z_history and both maps have that many rows and columns.
C4_EffectiveResolution ==
  /\ "_N_points" \in attrs =>
       (_N_points = ResolutionOf(args) /\ _N_points % 2 = 0)
  /\ "Z_history" \in attrs =>
       /\ Z_history.shape = <<_N_iter, _N_points, _N_points>>
       /\ \A t \in DOMAIN Z_history.at : DOMAIN Z_history.at[t] = Cells(_N_points)
  /\ pc = "ready" =>
       /\ _root_indices.shape = <<_N_points, _N_points>>
       /\ _convergence.shape = <<_N_points, _N_points>>

\* C5: in the numpy strategy every entry of the Root Index Map is the
\* smallest index, in Root Set order, of a root at minimal distance from
\* the point's value at step N_iter - 1; it lies in 0 .. k - 1.
C5_RootIndexIsFirstNearest ==
  (pc = "ready" /\ _method = "numpy") =>
    /\ _root_indices.shape = <<_N_points, _N_points>>
    /\ DOMAIN _root_indices.at = Cells(_N_points)
    /\ \A cell \in Cells(_N_points) :
         LET d == RootDistances(Z_history.at[_N_iter - 1][cell], _roots)
             r == _root_indices.at[cell]
         IN  /\ r \in 0..(Len(_roots) - 1)
             /\ \A j \in 1..Len(_roots) : ~DLess(d[j], d[r + 1])
             /\ \A j \in 1..r : DLess(d[r + 1], d[j])

\* C5 witness: two distinct roots, a point assigned the second one, and a
\* point at the same distance from both, assigned the first.
C5_Witness ==
  /\ pc = "ready"
  /\ _method = "numpy"
  /\ _N_iter > 1
  /\ Len(_roots) = 2
  /\ _roots[1] # _roots[2]
  /\ \E cell \in Cells(_N_points) : _root_indices.at[cell] = 1
  /\ \E cell \in Cells(_N_points) :
       LET d == RootDistances(Z_history.at[_N_iter - 1][cell], _roots)
       IN  d[1] = d[2] /\ _root_indices.at[cell] = 0

\* C6: a degree-0 or malformed polynomial is rejected with ValueError
\* during parameter validation, before the derivative, the roots, the grid
\* or any iteration is computed.
C6_DegenerateRejected ==
  (pc # "init" /\ (~args.poly_params.numeric \/ Len(args.poly_params.coef) <= 1)) =>
    (pc = "raised" /\ error = "ValueError" /\ NothingComputed)

\* C7: with the 'fortran' strategy in force and the extension module not
\* importable, execute() raises ImportError; the numpy loop never runs,
\* Z_history keeps only its step 0 and neither map is produced.
C7_NoImplicitFallback ==
  (_method = "fortran" /\ ~has_f2py /\ n_execute > 0) =>
    /\ pc = "raised"
    /\ error = "ImportError"
    /\ writes = <<>>
    /\ Z_history = NewHistory(_N_iter, _N_points, Z0(_bound, _N_points))
    /\ attrs \cap {"_root_indices", "_convergence"} = {}
    /\ _root_indices = NoArray
    /\ _convergence = NoArray

\* C7 witness: the method was left unspecified and execute() has raised.
C7_Witness ==
  /\ pc = "raised"
  /\ error = "ImportError"
  /\ IsNone(args.method)
  /\ n_execute = 1
  /\ Len(_roots) = 2

\* C8: under either strategy both maps are zero-based N x N arrays, the
\* root indices in 0 .. degree - 1 and the convergence values in
\* 0 .. N_iter - 1.
C8_SameOutputsEitherStrategy ==
  pc = "ready" =>
    /\ _root_indices.shape = <<_N_points, _N_points>>
    /\ _convergence.shape = <<_N_points, _N_points>>
    /\ DOMAIN _root_indices.at = Cells(_N_points)
    /\ DOMAIN _convergence.at = Cells(_N_points)
    /\ \A ix \in DOMAIN _root_indices.at :
         _root_indices.at[ix] \in 0..(Len(_roots) - 1)
    /\ \A ix \in DOMAIN _convergence.at :
         _convergence.at[ix] \in 0..(_N_iter - 1)

\* the steps written when the loop variable is j
Written(j) == [k \in 1..(j - 1) |-> k]

C9_History ==
  (_method = "numpy" /\ pc \in {"loop", "ready"}) =>
    LET done == IF pc = "loop" THEN i ELSE _N_iter
    IN  /\ Z_history.shape = <<_N_iter, _N_points, _N_points>>
        /\ DOMAIN Z_history.at = 0..(_N_iter - 1)
        /\ \A cell \in Cells(_N_points) :
             Z_history.at[0][cell] =
               C(Linspace(_bound, _N_points, cell[2]), Linspace(_bound, _N_points, cell[1]))
        /\ writes = Written(done)
        /\ \A k \in 1..(done - 1) : \A cell \in Cells(_N_points) :
             Z_history.at[k][cell] =
               CSub(Z_history.at[k - 1][cell],
                    CDiv(Polyval(_poly_params, Z_history.at[k - 1][cell]),
                         Polyval(_poly_der_params, Z_history.at[k - 1][cell])))

C9_Order ==
  /\ writes' # writes =>
       (writes' = <<>> \/ writes' = Append(writes, Len(writes) + 1))
  /\ (_method = "numpy" /\ pc # "ready" /\ pc' = "ready") =>
       (writes = Written(_N_iter) /\ Z_history' = Z_history)

\* C9: in the numpy strategy Z_history has N_iter steps, step 0 is the grid
\* x[col] + i y[row], every step k in 1 .. N_iter - 1 is written once, in
\* order, as the Newton-Raphson update of step k - 1 at every point, and
\* the classification runs only after step N_iter - 1 is written.
C9_HistoryInOrder == [](C9_History) /\ [][C9_Order]_vars

\* C9 witness: a three-step history is complete and a point has moved.
C9_Witness ==
  /\ pc = "ready"
  /\ _method = "numpy"
  /\ _N_iter = 3
  /\ writes = <<1, 2>>
  /\ \E cell \in Cells(_N_points) :
       /\ Z_history.at[1][cell] # Z_history.at[0][cell]
       /\ Z_history.at[2][cell] # Z_history.at[1][cell]

\* C10: once construction has completed, no call of execute() or
\* visualize() changes the Root Index Map, the Convergence Map, the Root
\* Set or Z_history.
C10_FrozenAfterConstruction ==
  [][(pc = "ready" \/ calls > 0) =>
       /\ _root_indices' = _root_indices
       /\ _convergence' = _convergence
       /\ _roots' = _roots
       /\ Z_history' = Z_history]_vars

\* C10 witness: an execute() and a visualize() have both run on the
\* constructed instance, and the repeated execute() rewrote the history.
C10_Witness ==
  /\ pc = "ready"
  /\ calls = 2
  /\ n_execute = 2
  /\ files = 1
  /\ _method = "numpy"
  /\ Len(writes) = 2

====
